---- MODULE Spec2Model ----
(***************************************************************************)
(* The Mongos proxy topology of lib2/topologies/mongos.js as a state       *)
(* machine.  One action per public method and per callback (initial        *)
(* connect event, stable-state event, monitor tick, ismaster reply, rehab  *)
(* connect event, auth reply).  The Server objects are the environment:    *)
(* they emit events on the listeners the topology has registered and call  *)
(* back the commands the topology has sent.                                *)
(***************************************************************************)
EXTENDS Integers, Sequences, FiniteSets, TLC

\* ------------------------------------------------------------------ bounds
\* Server objects created over one lifetime (seeds, rehab attempts).
MaxHandles == 3
\* Calls of connect() over one lifetime.
MaxConnects == 2
\* Monitor chains (topologyMonitor timers or ticks outstanding at once).
MaxMonitors == 2
\* Failure events one server emits on the once-handlers of a connect attempt
\* (a failed attempt can emit 'error' and then 'close').
MaxFailures == 2

\* --------------------------------------------------------- program constants
DISCONNECTED == "disconnected"
CONNECTING == "connecting"
CONNECTED == "connected"
DESTROYED == "destroyed"

\* var handlers = ['connect', 'close', 'error', 'timeout', 'parseError']
handlers == <<"connect", "close", "error", "timeout", "parseError">>
HandlerSet == {handlers[i] : i \in 1..Len(handlers)}
FailureEvents == HandlerSet \ {"connect"}

\* options.localThresholdMS || 15
localThresholdMS == 15
\* Number.MAX_VALUE, the initial lowerBoundLatency: above every latency, and
\* still above every latency after localThresholdMS is added to it.
MAX_VALUE == 1000000
\* The value of self.index once a selection has computed index % 0.
NaN == -1
\* What pickProxy returns for connectedProxies[NaN]: no handle (ids start at 1).
undefined == 0

\* ------------------------------------------------------------- environment
\* What a topology is constructed with: the seed list (the last one has two
\* equal seeds) and whether options.disconnectHandler is given.
Constructions ==
  {[seedlist |-> <<"a:1">>, disconnectHandler |-> FALSE],
   [seedlist |-> <<"a:1", "b:2">>, disconnectHandler |-> TRUE],
   [seedlist |-> <<"a:1", "a:1">>, disconnectHandler |-> TRUE]}
\* Round trips an ismaster can take (ms): inside and outside a 15 ms window.
Latencies == {5, 40}
\* The round trips of servers that all answer equally fast.
NearLatencies == {5}
\* The servers whose ismaster reply has arbiterOnly: true.
Arbiters == {"c:3"}
\* lastIsMaster().arbiterOnly of the server of that name once it has connected.
ArbiterFlags(nm) == {nm \in Arbiters}
\* A topology one of whose two seeds is an arbiter.
ArbiterConstructions ==
  {[seedlist |-> <<"a:1", "c:3">>, disconnectHandler |-> FALSE]}

VARIABLES
  state,              \* this.state
  seedlist,           \* this.s.seedlist (names of the seeds)
  disconnectHandler,  \* this.s.disconnectHandler != null
  handles,            \* the Server objects created so far, by id
  connectingProxies,  \* this.connectingProxies (handle ids, in order)
  connectedProxies,   \* this.connectedProxies
  disconnectedProxies,\* this.disconnectedProxies
  authenticating,     \* this.authenticating
  auth,               \* the auth fan-out in flight: its count and pending replies
  index,              \* this.index
  lowerBoundLatency,  \* this.lowerBoundLatency
  haTimeoutId,        \* this.haTimeoutId: the monitor whose timer was set last
  monitors,           \* the topologyMonitor timers and ticks outstanding
  nconnects,          \* calls of connect() so far
  connectEmitted,     \* how often 'connect' was emitted so far (up to 2)
  closedEmitted,      \* how often 'topologyClosed' was emitted so far (up to 2)
  emitted,            \* the events the last step emitted, in order
  result              \* what the last step returned or called back

vars == <<state, seedlist, disconnectHandler, handles, connectingProxies,
          connectedProxies, disconnectedProxies, authenticating, auth, index,
          lowerBoundLatency, haTimeoutId, monitors, nconnects, connectEmitted,
          closedEmitted, emitted, result>>

\* ------------------------------------------------------------------ helpers
Min(a, b) == IF a < b THEN a ELSE b

Range(s) == {s[i] : i \in 1..Len(s)}

\* Array.prototype.splice(i, 1), 1-based.
Splice(s, i) == [j \in 1..(Len(s) - 1) |-> IF j < i THEN s[j] ELSE s[j + 1]]

\* A Server as the topology sees it.
\*   lst   which listeners the topology has on it: "initial" (once-handlers of
\*         connectProxies), "rehab" (once-handlers of reconnectProxies),
\*         "stable" (handleEvent), "off" (never created)
\*   once  the once-handlers not yet fired
\*   up    isConnected()
\*   lat   lastIsMasterMS
\*   arb   lastIsMaster().arbiterOnly
\*   rc    the monitor whose reconnectProxies count this handle decrements (0: none)
NewServer(nm, l, m) ==
  [name |-> nm, lst |-> l, once |-> HandlerSet, destroyed |-> FALSE,
   up |-> FALSE, lat |-> 0, arb |-> FALSE, rc |-> m]

\* Server.prototype.destroy as the topology relies on it.
DestroyServer(h) == [h EXCEPT !.destroyed = TRUE, !.up = FALSE]

NoResult == [op |-> "none", out |-> "none", to |-> undefined, kind |-> "none"]

Ev(nm, h) == [ev |-> nm, h |-> h]

\* 'connect', 'fullsetup', 'all' emitted together.
ConnectEventsReordered == <<Ev("fullsetup", 0), Ev("connect", 0), Ev("all", 0)>>

ConnectEvents == <<Ev("connect", 0), Ev("fullsetup", 0), Ev("all", 0)>>

\* ---------------------------------------------------------- stateTransition
legalTransitions(s) ==
  CASE s = DISCONNECTED -> {CONNECTING, DESTROYED, DISCONNECTED}
    [] s = CONNECTING -> {CONNECTING, DESTROYED, CONNECTED, DISCONNECTED}
    [] s = CONNECTED -> {CONNECTED, DISCONNECTED, DESTROYED}
    [] s = DESTROYED -> {DESTROYED}

\* stateTransition without the look-up in the table.
stateTransitionUnchecked(cur, newState) == newState

\* The state after stateTransition(self, newState).
stateTransition(cur, newState) ==
  IF newState \in legalTransitions(cur) THEN newState ELSE cur

\* ----------------------------------------------------------- moveServerFrom
\* for(i = 0; i < list.length; i++) if(list[i].name == name) list.splice(i, 1):
\* after a splice the loop still increments i, so the entry that moved into
\* position i is not looked at.
RECURSIVE SpliceLoop(_, _, _, _)
SpliceLoop(hs, list, i, nm) ==
  IF i > Len(list) THEN list
  ELSE IF hs[list[i]].name = nm THEN SpliceLoop(hs, Splice(list, i), i + 1, nm)
  ELSE SpliceLoop(hs, list, i + 1, nm)

\* moveServerFrom without its second loop: `to` keeps its entries of that name.
moveServerFromKeeping(hs, from, to, proxy) ==
  [from |-> SpliceLoop(hs, from, 1, hs[proxy].name), to |-> Append(to, proxy)]

\* moveServerFrom(from, to, proxy): the two lists afterwards.
moveServerFrom(hs, from, to, proxy) ==
  [from |-> SpliceLoop(hs, from, 1, hs[proxy].name),
   to |-> Append(SpliceLoop(hs, to, 1, hs[proxy].name), proxy)]

\* isConnected() of a topology that takes itself for connected at all times.
isConnectedAlways == TRUE

\* Mongos.prototype.isConnected
isConnected == Len(connectedProxies) > 0

\* ---------------------------------------------------------- topologyMonitor
\* One topologyMonitor chain: its timer (ph "timer"), the tick's pings in
\* flight ("ping": count left, the servers whose ismaster has not called back),
\* the tick's reconnectProxies in flight ("rehab": count left), or none ("idle").
\*   first  options.firstConnect of the tick
\*   path   which callback reconnectProxies was given: "rehab" (no proxies
\*          connected, lines 558-573) or "ping" (lines 590-594)
IdleMonitor ==
  [ph |-> "idle", first |-> FALSE, path |-> "ping", count |-> 0, pings |-> {}]

FreeMonitors(ms) == {m \in DOMAIN ms : ms[m].ph = "idle"}

FreeMonitor(ms) == CHOOSE m \in FreeMonitors(ms) : \A k \in FreeMonitors(ms) : m <= k

\* topologyMonitor(self, options) called from m's own callback: the next timer.
SetTimer(ms, m, firstConnect) ==
  [ms EXCEPT ![m] = [IdleMonitor EXCEPT !.ph = "timer", !.first = firstConnect]]

\* How often 'connect' has been emitted once es has been emitted too.
CountConnect(n, es) ==
  IF \E i \in 1..Len(es) : es[i].ev = "connect" THEN Min(n + 1, 2) ELSE n

\* ------------------------------------------------------------ initial state
\* new Mongos(c.seedlist, {disconnectHandler: ...}).
Constructed(c) ==
  /\ state = DISCONNECTED
  /\ seedlist = c.seedlist
  /\ disconnectHandler = c.disconnectHandler
  /\ handles = <<>>
  /\ connectingProxies = <<>>
  /\ connectedProxies = <<>>
  /\ disconnectedProxies = <<>>
  /\ authenticating = FALSE
  /\ auth = [count |-> 0, pending |-> {}, errors |-> FALSE]
  /\ index = 0
  /\ lowerBoundLatency = MAX_VALUE
  /\ haTimeoutId = 0
  /\ monitors = [m \in 1..MaxMonitors |-> IdleMonitor]
  /\ nconnects = 0
  /\ connectEmitted = 0
  /\ closedEmitted = 0
  /\ emitted = <<>>
  /\ result = NoResult

Init == \E c \in Constructions : Constructed(c)

\* ------------------------------------------------------------------ connect
\* Mongos.prototype.connect with connectProxies.  The staggered timers of
\* connectProxies only register the once-handlers and call server.connect():
\* the servers are created with the handlers on, since no event reaches the
\* topology before they are.
connect ==
  /\ nconnects < MaxConnects
  /\ Len(handles) + Len(seedlist) <= MaxHandles
  /\ nconnects' = nconnects + 1
  /\ state' = stateTransition(state, CONNECTING)
  /\ handles' = handles \o [i \in 1..Len(seedlist) |-> NewServer(seedlist[i], "initial", 0)]
  /\ connectingProxies' =
       connectingProxies \o [i \in 1..Len(seedlist) |-> Len(handles) + i]
  /\ emitted' = <<Ev("topologyOpening", 0)>>
  /\ result' = NoResult
  /\ UNCHANGED <<seedlist, disconnectHandler, connectedProxies, disconnectedProxies,
                 authenticating, auth, index, lowerBoundLatency, haTimeoutId,
                 monitors, connectEmitted, closedEmitted>>

\* ------------------------------------------------- the events a server emits
\* The four failure events run the same closure (it only tells 'connect' from
\* the rest), so a server emits the failure events it still has a once-handler
\* for in the order of `handlers`, at most MaxFailures of them.  'connect' is
\* the first event of a server or never comes.
NextFailure(once) ==
  CHOOSE i \in 1..Len(handlers) :
    /\ handlers[i] \in once \ {"connect"}
    /\ \A j \in 1..(i - 1) : handlers[j] \notin once \ {"connect"}

OnceEvents(h) ==
  (IF h.once = HandlerSet THEN {"connect"} ELSE {})
    \cup (IF Cardinality(FailureEvents \ h.once) < MaxFailures /\ h.once \ {"connect"} # {}
          THEN {handlers[NextFailure(h.once)]} ELSE {})

\* ------------------------------------------------ handleInitialConnectEvent
HasName(hs, list, nm) == \E i \in 1..Len(list) : hs[list[i]].name = nm

handleInitialConnectEvent(h, e, l, a) ==
  /\ handles[h].lst = "initial"
  /\ e \in OnceEvents(handles[h])
  /\ LET fired == [handles EXCEPT ![h].once = @ \ {e}] IN
     IF state = DESTROYED THEN
       \* return this.destroy()
       /\ handles' = [fired EXCEPT ![h] = DestroyServer(@)]
       /\ emitted' = <<>>
       /\ UNCHANGED <<state, connectingProxies, connectedProxies,
                      disconnectedProxies, haTimeoutId, monitors>>
     ELSE IF e = "connect" /\ HasName(handles, connectedProxies, handles[h].name) THEN
       \* a server of that name is connected: destroy, emit 'failed', return
       /\ handles' = [fired EXCEPT ![h] = DestroyServer(@)]
       /\ emitted' = <<Ev("failed", h)>>
       /\ UNCHANGED <<state, connectingProxies, connectedProxies,
                      disconnectedProxies, haTimeoutId, monitors>>
     ELSE
       LET hs == IF e = "connect"
                 THEN [fired EXCEPT ![h].lst = "stable", ![h].once = {},
                                    ![h].up = TRUE, ![h].lat = l, ![h].arb = a]
                 ELSE [fired EXCEPT ![h].up = FALSE]
           mv == IF e = "connect"
                 THEN moveServerFrom(hs, connectingProxies, connectedProxies, h)
                 ELSE moveServerFrom(hs, connectingProxies, disconnectedProxies, h)
           conn == IF e = "connect" THEN mv.to ELSE connectedProxies
           disc == IF e = "connect" THEN disconnectedProxies ELSE mv.to
           ev1 == IF e = "connect" THEN <<Ev("joined", h)>>
                  ELSE <<Ev("left", h), Ev("failed", h)>>
       IN
       /\ handles' = hs
       /\ connectingProxies' = mv.from
       /\ connectedProxies' = conn
       /\ disconnectedProxies' = disc
       /\ IF Len(mv.from) = 0 THEN
            \* the batch has settled: topologyMonitor(self, {firstConnect:true})
            /\ FreeMonitors(monitors) # {}
            /\ state' = IF Len(conn) > 0 THEN stateTransition(state, CONNECTED) ELSE state
            /\ emitted' = IF Len(conn) > 0 THEN ev1 \o ConnectEvents ELSE ev1
            /\ monitors' = SetTimer(monitors, FreeMonitor(monitors), TRUE)
            /\ haTimeoutId' = FreeMonitor(monitors)
          ELSE
            /\ emitted' = ev1
            /\ UNCHANGED <<state, monitors, haTimeoutId>>
  /\ connectEmitted' = CountConnect(connectEmitted, emitted')
  /\ UNCHANGED closedEmitted
  /\ result' = NoResult
  /\ UNCHANGED <<seedlist, disconnectHandler, authenticating, auth, index,
                 lowerBoundLatency, nconnects>>

\* -------------------------------------------------------------- handleEvent
\* handleEvent without `if(self.state == DESTROYED) return`.
handleEventUnguarded(h) ==
  /\ handles[h].lst = "stable"
  /\ LET mv == moveServerFrom(handles, connectedProxies, disconnectedProxies, h) IN
     /\ handles' = [handles EXCEPT ![h].up = FALSE]
     /\ connectedProxies' = mv.from
     /\ disconnectedProxies' = mv.to
     /\ emitted' = <<Ev("left", h)>>
  /\ result' = NoResult
  /\ UNCHANGED <<state, seedlist, disconnectHandler, connectingProxies,
                 authenticating, auth, index, lowerBoundLatency, haTimeoutId,
                 monitors, nconnects, connectEmitted,
                 closedEmitted>>

\* The stable-state handler of 'error', 'close', 'timeout', 'parseError'.
handleEvent(h) ==
  /\ handles[h].lst = "stable"
  /\ IF state = DESTROYED THEN
       /\ handles' = [handles EXCEPT ![h].up = FALSE]
       /\ emitted' = <<>>
       /\ UNCHANGED <<connectedProxies, disconnectedProxies>>
     ELSE
       LET mv == moveServerFrom(handles, connectedProxies, disconnectedProxies, h) IN
       /\ handles' = [handles EXCEPT ![h].up = FALSE]
       /\ connectedProxies' = mv.from
       /\ disconnectedProxies' = mv.to
       /\ emitted' = <<Ev("left", h)>>
  /\ result' = NoResult
  /\ UNCHANGED <<state, seedlist, disconnectHandler, connectingProxies,
                 authenticating, auth, index, lowerBoundLatency, haTimeoutId,
                 monitors, nconnects, connectEmitted,
                 closedEmitted>>

\* --------------------------------------------------------- reconnectProxies
\* What the callback given to reconnectProxies emits before it calls
\* topologyMonitor(self): the rehab path's 'connect' or 'reconnect' (lines
\* 561-568), nothing on the ping path.
CallbackEvents(path, firstConnect, st, conn) ==
  IF path = "rehab"
  THEN IF st = CONNECTING /\ firstConnect THEN ConnectEvents
       ELSE IF Len(conn) > 0 THEN <<Ev("reconnect", 0)>>
       ELSE <<>>
  ELSE <<>>

\* reconnectProxies(self, self.disconnectedProxies, callback) called by monitor
\* m on a topology that is not destroyed, with hs, disc and conn the servers
\* and lists as the caller leaves them and pre what the caller has emitted.
\* With nothing disconnected the callback runs at once; otherwise a server is
\* created per entry (the staggered timers of `execute` are not kept apart from
\* the call: a timer that finds the topology destroyed creates a server that
\* never emits, and one that emits on a destroyed topology is only destroyed).
reconnectProxies(m, path, hs, disc, conn, pre) ==
  IF Len(disc) = 0 THEN
    /\ handles' = hs
    /\ monitors' = SetTimer(monitors, m, FALSE)
    /\ haTimeoutId' = m
    /\ emitted' = pre \o CallbackEvents(path, monitors[m].first, state, conn)
  ELSE
    /\ Len(hs) + Len(disc) <= MaxHandles
    /\ handles' = hs \o [i \in 1..Len(disc) |-> NewServer(hs[disc[i]].name, "rehab", m)]
    /\ monitors' = [monitors EXCEPT ![m] =
                     [ph |-> "rehab", first |-> monitors[m].first, path |-> path,
                      count |-> Len(disc), pings |-> {}]]
    /\ emitted' = pre
    /\ UNCHANGED haTimeoutId

\* The test of _handleEvent with the authenticating latch left out.
promotesUnlatched(e, authing) == e = "connect"

\* event == 'connect' && !self.authenticating: the server is promoted.
promotes(e, authing) == e = "connect" /\ ~authing

\* The once-handler of a server created by reconnectProxies.
\* l, a: the latency and arbiterOnly the server reports if it connected.
reconnectProxiesHandleEvent(h, e, l, a) ==
  /\ handles[h].lst = "rehab"
  /\ e \in OnceEvents(handles[h])
  /\ LET m == handles[h].rc
         fired == [handles EXCEPT ![h].once = @ \ {e}]
         \* count = count - 1
         left == IF m = 0 THEN -1 ELSE monitors[m].count - 1
         counted == IF m = 0 THEN monitors ELSE [monitors EXCEPT ![m].count = left]
     IN
     IF state = DESTROYED THEN
       \* return this.destroy()
       /\ handles' = [fired EXCEPT ![h] = DestroyServer(@)]
       /\ monitors' = counted
       /\ emitted' = <<>>
       /\ UNCHANGED <<connectedProxies, disconnectedProxies, haTimeoutId>>
     ELSE
       LET joins == promotes(e, authenticating)
           hs == IF joins
                 THEN [fired EXCEPT ![h].lst = "stable", ![h].once = {},
                                    ![h].up = TRUE, ![h].lat = l, ![h].arb = a]
                 ELSE IF e = "connect" THEN [fired EXCEPT ![h] = DestroyServer(@)]
                 ELSE [fired EXCEPT ![h].up = FALSE]
           mv == moveServerFrom(hs, disconnectedProxies, connectedProxies, h)
           conn == IF joins THEN mv.to ELSE connectedProxies
           ev1 == IF joins THEN <<Ev("joined", h)>> ELSE <<>>
       IN
       /\ connectedProxies' = conn
       /\ disconnectedProxies' = IF joins THEN mv.from ELSE disconnectedProxies
       /\ IF left = 0 THEN
            \* callback(): the servers of this call count on a closed-over
            \* variable that never comes back to 0
            /\ handles' = [k \in DOMAIN hs |->
                            IF hs[k].rc = m THEN [hs[k] EXCEPT !.rc = 0] ELSE hs[k]]
            /\ monitors' = SetTimer(monitors, m, FALSE)
            /\ haTimeoutId' = m
            /\ emitted' = ev1 \o CallbackEvents(monitors[m].path, monitors[m].first,
                                                state, conn)
          ELSE
            /\ handles' = hs
            /\ monitors' = counted
            /\ emitted' = ev1
            /\ UNCHANGED haTimeoutId
  /\ connectEmitted' = CountConnect(connectEmitted, emitted')
  /\ UNCHANGED closedEmitted
  /\ result' = NoResult
  /\ UNCHANGED <<state, seedlist, disconnectHandler, connectingProxies,
                 authenticating, auth, index, lowerBoundLatency, nconnects>>

\* ---------------------------------------------------------- topologyMonitor
\* The timer of topologyMonitor fires: one tick.
topologyMonitor(m) ==
  /\ monitors[m].ph = "timer"
  /\ IF state = DESTROYED THEN
       /\ monitors' = [monitors EXCEPT ![m] = IdleMonitor]
       /\ emitted' = <<>>
       /\ UNCHANGED <<handles, haTimeoutId>>
     ELSE IF Len(connectedProxies) = 0 THEN
       reconnectProxies(m, "rehab", handles, disconnectedProxies, connectedProxies, <<>>)
     ELSE
       \* pingServer for every connected proxy
       /\ monitors' = [monitors EXCEPT ![m] =
                        [ph |-> "ping", first |-> monitors[m].first, path |-> "ping",
                         count |-> Len(connectedProxies),
                         pings |-> Range(connectedProxies)]]
       /\ emitted' = [i \in 1..Len(connectedProxies) |->
                       Ev("serverHeartbeatStarted", connectedProxies[i])]
       /\ UNCHANGED <<handles, haTimeoutId>>
  /\ connectEmitted' = CountConnect(connectEmitted, emitted')
  /\ UNCHANGED closedEmitted
  /\ result' = NoResult
  /\ UNCHANGED <<state, seedlist, disconnectHandler, connectingProxies,
                 connectedProxies, disconnectedProxies, authenticating, auth,
                 index, lowerBoundLatency, nconnects>>

\* The callback of the ismaster command pingServer sent to h.
\* err: the command failed; l: the round trip measured otherwise.
pingServer(m, h, err, l) ==
  /\ monitors[m].ph = "ping"
  /\ h \in monitors[m].pings
  /\ err \/ handles[h].up
  /\ LET left == monitors[m].count - 1
         counted == [monitors EXCEPT ![m].count = left, ![m].pings = @ \ {h}]
     IN
     IF state = DESTROYED THEN
       \* _server.destroy(); return cb(err, r)
       /\ handles' = [handles EXCEPT ![h] = DestroyServer(@)]
       /\ monitors' = IF left = 0 THEN [monitors EXCEPT ![m] = IdleMonitor] ELSE counted
       /\ emitted' = <<>>
       /\ UNCHANGED <<connectedProxies, disconnectedProxies, lowerBoundLatency,
                      haTimeoutId>>
     ELSE
       LET hs == IF err THEN [handles EXCEPT ![h] = DestroyServer(@)]
                 ELSE [handles EXCEPT ![h].lat = l]
           mv == moveServerFrom(handles, connectedProxies, disconnectedProxies, h)
           conn == IF err THEN mv.from ELSE connectedProxies
           disc == IF err THEN mv.to ELSE disconnectedProxies
           ev1 == IF err THEN <<Ev("serverHearbeatFailed", h), Ev("left", h)>>
                  ELSE <<Ev("serverHeartbeatSucceeded", h)>>
       IN
       \* the lower bound is adjusted to the latency the server had before
       /\ lowerBoundLatency' = Min(lowerBoundLatency, handles[h].lat)
       /\ connectedProxies' = conn
       /\ disconnectedProxies' = disc
       /\ IF left = 0 THEN reconnectProxies(m, "ping", hs, disc, conn, ev1)
          ELSE /\ handles' = hs
               /\ monitors' = counted
               /\ emitted' = ev1
               /\ UNCHANGED haTimeoutId
  /\ connectEmitted' = CountConnect(connectEmitted, emitted')
  /\ UNCHANGED closedEmitted
  /\ result' = NoResult
  /\ UNCHANGED <<state, seedlist, disconnectHandler, connectingProxies,
                 authenticating, auth, index, nconnects>>

\* ------------------------------------------------------------------ destroy
destroy ==
  /\ state' = stateTransition(state, DESTROYED)
  /\ LET proxies == Range(connectedProxies) \cup Range(connectingProxies) IN
     handles' = [h \in DOMAIN handles |->
                  IF h \in proxies THEN DestroyServer(handles[h]) ELSE handles[h]]
  \* if(this.haTimeoutId) clearTimeout(this.haTimeoutId)
  /\ monitors' = IF haTimeoutId # 0 /\ monitors[haTimeoutId].ph = "timer"
                 THEN [monitors EXCEPT ![haTimeoutId] = IdleMonitor]
                 ELSE monitors
  /\ emitted' = <<Ev("topologyClosed", 0)>>
  /\ closedEmitted' = Min(closedEmitted + 1, 2)
  /\ result' = NoResult
  /\ UNCHANGED <<seedlist, disconnectHandler, connectingProxies, connectedProxies,
                 disconnectedProxies, authenticating, auth, index,
                 lowerBoundLatency, haTimeoutId, nconnects, connectEmitted>>

\* -------------------------------------------------------------------- unref
\* Mongos.prototype.unref: the state transition, then `self.connectedProxies`
\* with no `self` in scope: a ReferenceError before any server is unref'ed and
\* before clearTimeout.
unref ==
  /\ state' = stateTransition(state, DESTROYED)
  /\ result' = [op |-> "unref", out |-> "ReferenceError", to |-> undefined, kind |-> "none"]
  /\ emitted' = <<>>
  /\ UNCHANGED <<seedlist, disconnectHandler, handles, connectingProxies,
                 connectedProxies, disconnectedProxies, authenticating, auth, index,
                 lowerBoundLatency, haTimeoutId, monitors, nconnects, connectEmitted,
                 closedEmitted>>

\* ---------------------------------------------------------------- pickProxy
\* The connected proxies that pass the filter of pickProxy, in order.
Eligible(hs, conn, lower) ==
  SelectSeq(conn, LAMBDA h : hs[h].lat <= lower + localThresholdMS /\ hs[h].up)

\* pickProxy(self): the proxy returned and self.index afterwards.  With no
\* eligible proxy index % 0 is NaN, connectedProxies[NaN] is undefined and the
\* index becomes NaN; NaN % n and (NaN + 1) % n are NaN for every n.
pickProxy(hs, conn, lower, idx) ==
  LET el == Eligible(hs, conn, lower) IN
  IF Len(el) = 0 \/ idx = NaN
  THEN [proxy |-> undefined, index |-> NaN]
  ELSE [proxy |-> el[(idx % Len(el)) + 1], index |-> (idx + 1) % Len(el)]

Result(o, r, h, k) == [op |-> o, out |-> r, to |-> h, kind |-> k]

WriteOps == {"insert", "update", "remove"}

\* ------------------------------------------------- insert, update and remove
\* Mongos.prototype.insert, update and remove with executeWriteOperation.
\*   "destroyed"  callback(MongoError('topology was destroyed'))
\*   "buffered"   disconnectHandler.add(kind, ...): all three pass 'insert'
\*   "noproxy"    callback(MongoError('no mongos proxy available'))
\*   "forwarded"  server[op](ns, ops, options, callback) on the proxy picked
\*   "TypeError"  pickProxy returned undefined and server[op] threw
write(op) ==
  /\ op \in WriteOps
  /\ IF state = DESTROYED THEN
       /\ result' = Result(op, "destroyed", undefined, "none")
       /\ UNCHANGED index
     ELSE IF ~isConnected /\ disconnectHandler THEN
       /\ result' = Result(op, "buffered", undefined, "insert")
       /\ UNCHANGED index
     ELSE IF ~isConnected THEN
       /\ result' = Result(op, "noproxy", undefined, "none")
       /\ UNCHANGED index
     ELSE
       LET p == pickProxy(handles, connectedProxies, lowerBoundLatency, index) IN
       /\ index' = p.index
       /\ result' = IF p.proxy = undefined
                    THEN Result(op, "TypeError", undefined, "none")
                    ELSE Result(op, "forwarded", p.proxy, "none")
  /\ emitted' = <<>>
  /\ UNCHANGED <<state, seedlist, disconnectHandler, handles, connectingProxies,
                 connectedProxies, disconnectedProxies, authenticating, auth,
                 lowerBoundLatency, haTimeoutId, monitors, nconnects, connectEmitted,
                 closedEmitted>>

\* ------------------------------------------------------------------ command
\* Mongos.prototype.command: the proxy is picked before the disconnect handler
\* is looked at, and no proxy ends the call with 'no mongos proxy available'.
command ==
  /\ IF state = DESTROYED THEN
       /\ result' = Result("command", "destroyed", undefined, "none")
       /\ UNCHANGED index
     ELSE
       LET p == pickProxy(handles, connectedProxies, lowerBoundLatency, index) IN
       /\ index' = p.index
       /\ result' = IF p.proxy = undefined
                    THEN Result("command", "noproxy", undefined, "none")
                    ELSE IF ~handles[p.proxy].up /\ disconnectHandler
                    THEN Result("command", "buffered", undefined, "command")
                    ELSE Result("command", "forwarded", p.proxy, "none")
  /\ emitted' = <<>>
  /\ UNCHANGED <<state, seedlist, disconnectHandler, handles, connectingProxies,
                 connectedProxies, disconnectedProxies, authenticating, auth,
                 lowerBoundLatency, haTimeoutId, monitors, nconnects, connectEmitted,
                 closedEmitted>>

\* ---------------------------------------------------------------- getServer
getServer ==
  /\ LET p == pickProxy(handles, connectedProxies, lowerBoundLatency, index) IN
     /\ index' = p.index
     /\ result' = Result("getServer", "returned", p.proxy, "none")
  /\ emitted' = <<>>
  /\ UNCHANGED <<state, seedlist, disconnectHandler, handles, connectingProxies,
                 connectedProxies, disconnectedProxies, authenticating, auth,
                 lowerBoundLatency, haTimeoutId, monitors, nconnects, connectEmitted,
                 closedEmitted>>

\* --------------------------------------------------------------------- auth
NoAuth == [count |-> 0, pending |-> {}, errors |-> FALSE]

\* auth without `if(this.authenticating) throw`.
authCallUnlatched(provider) ==
  /\ IF ~provider THEN
       /\ result' = Result("auth", "throw:provider", undefined, "none")
       /\ UNCHANGED <<authenticating, auth>>
     ELSE IF ~isConnected /\ disconnectHandler THEN
       /\ result' = Result("auth", "buffered", undefined, "auth")
       /\ UNCHANGED <<authenticating, auth>>
     ELSE IF Len(connectedProxies) = 0 THEN
       /\ result' = Result("auth", "callback:true", undefined, "none")
       /\ UNCHANGED <<authenticating, auth>>
     ELSE
       /\ authenticating' = TRUE
       /\ auth' = [count |-> Len(connectedProxies),
                   pending |-> {h \in Range(connectedProxies) : ~handles[h].arb},
                   errors |-> FALSE]
       /\ result' = Result("auth", "pending", undefined, "none")
  /\ emitted' = <<>>
  /\ UNCHANGED <<state, seedlist, disconnectHandler, handles, connectingProxies,
                 connectedProxies, disconnectedProxies, index, lowerBoundLatency,
                 haTimeoutId, monitors, nconnects, connectEmitted,
                 closedEmitted>>

\* Mongos.prototype.auth(mechanism, db, ..., callback).
\* provider: this.authProviders[mechanism] exists or mechanism is 'default'.
\*   "throw:provider"  'auth provider %s does not exist' is thrown
\*   "throw:inprocess" 'authentication or logout allready in process' is thrown
\*   "buffered"        disconnectHandler.add('auth', ...)
\*   "callback:true"   callback(null, true): no server is connected
\*   "pending"         server.auth was called on the non-arbiters of the snapshot
authCall(provider) ==
  /\ IF ~provider THEN
       /\ result' = Result("auth", "throw:provider", undefined, "none")
       /\ UNCHANGED <<authenticating, auth>>
     ELSE IF authenticating THEN
       /\ result' = Result("auth", "throw:inprocess", undefined, "none")
       /\ UNCHANGED <<authenticating, auth>>
     ELSE IF ~isConnected /\ disconnectHandler THEN
       /\ result' = Result("auth", "buffered", undefined, "auth")
       /\ UNCHANGED <<authenticating, auth>>
     ELSE IF Len(connectedProxies) = 0 THEN
       /\ result' = Result("auth", "callback:true", undefined, "none")
       /\ UNCHANGED <<authenticating, auth>>
     ELSE
       /\ authenticating' = TRUE
       /\ auth' = [count |-> Len(connectedProxies),
                   pending |-> {h \in Range(connectedProxies) : ~handles[h].arb},
                   errors |-> FALSE]
       /\ result' = Result("auth", "pending", undefined, "none")
  /\ emitted' = <<>>
  /\ UNCHANGED <<state, seedlist, disconnectHandler, handles, connectingProxies,
                 connectedProxies, disconnectedProxies, index, lowerBoundLatency,
                 haTimeoutId, monitors, nconnects, connectEmitted,
                 closedEmitted>>

\* The callback auth passed to server.auth of h.
\*   "callback:fail"  callback(MongoError 'authentication fail', false)
\*   "callback:self"  callback(null, self)
authReply(h, err) ==
  /\ h \in auth.pending
  /\ LET left == auth.count - 1
         errors == auth.errors \/ err
     IN
     IF left = 0 THEN
       /\ authenticating' = FALSE
       /\ auth' = NoAuth
       /\ result' = Result("auth reply", IF errors THEN "callback:fail" ELSE "callback:self",
                           undefined, "none")
     ELSE
       /\ auth' = [count |-> left, pending |-> auth.pending \ {h}, errors |-> errors]
       /\ result' = NoResult
       /\ UNCHANGED authenticating
  /\ emitted' = <<>>
  /\ UNCHANGED <<state, seedlist, disconnectHandler, handles, connectingProxies,
                 connectedProxies, disconnectedProxies, index, lowerBoundLatency,
                 haTimeoutId, monitors, nconnects, connectEmitted,
                 closedEmitted>>

\* ------------------------------------------------------------ specifications
\* connect, destroy, unref and the callbacks of servers and timers.
LifecycleOf(lats) ==
  \/ connect
  \/ \E h \in DOMAIN handles, e \in HandlerSet, l \in lats :
       \E a \in ArbiterFlags(handles[h].name) : handleInitialConnectEvent(h, e, l, a)
  \/ \E h \in DOMAIN handles : handleEvent(h)
  \/ \E m \in DOMAIN monitors : topologyMonitor(m)
  \/ \E m \in DOMAIN monitors, h \in DOMAIN handles, err \in BOOLEAN, l \in lats :
       pingServer(m, h, err, l)
  \/ \E h \in DOMAIN handles, e \in HandlerSet, l \in lats :
       \E a \in ArbiterFlags(handles[h].name) : reconnectProxiesHandleEvent(h, e, l, a)
  \/ destroy
  \/ unref

Lifecycle == LifecycleOf(Latencies)

Authentication ==
  \/ \E provider \in BOOLEAN : authCall(provider)
  \/ \E h \in DOMAIN handles, err \in BOOLEAN : authReply(h, err)

\* The operations that select a proxy.  They write index and result only, and
\* nothing but pickProxy reads index.
Operations ==
  \/ \E op \in WriteOps : write(op)
  \/ command
  \/ getServer

Next == Lifecycle \/ Authentication \/ Operations

\* The whole program.
Spec == Init /\ [][Next]_vars

\* The topology without the selecting operations, its servers equally fast.
SpecTopology == Init /\ [][LifecycleOf(NearLatencies) \/ Authentication]_vars

\* The selecting operations on the topology of two different seeds and a
\* disconnect handler, which nobody authenticates against.
SpecOperations ==
  Constructed([seedlist |-> <<"a:1", "b:2">>, disconnectHandler |-> TRUE])
    /\ [][Lifecycle \/ Operations]_vars

\* The whole program on the topology of two equal seeds and a disconnect
\* handler, its servers equally fast.
SpecBuffering ==
  Constructed([seedlist |-> <<"a:1", "a:1">>, disconnectHandler |-> TRUE])
    /\ [][LifecycleOf(NearLatencies) \/ Authentication \/ Operations]_vars

\* The topology without the selecting operations, one seed being an arbiter.
SpecArbiter ==
  (\E c \in ArbiterConstructions : Constructed(c))
    /\ [][LifecycleOf(NearLatencies) \/ Authentication]_vars

\* A connect attempt settles: the first event of a server that had none.
Settles ==
  \E h \in DOMAIN handles, e \in HandlerSet, l \in NearLatencies :
    \E a \in ArbiterFlags(handles[h].name) :
      /\ handles[h].once = HandlerSet
      /\ \/ handleInitialConnectEvent(h, e, l, a)
         \/ reconnectProxiesHandleEvent(h, e, l, a)

\* What the event loop and the servers owe the topology: a timer that was set
\* fires, an ismaster command calls back, a connect attempt settles.  Nothing
\* obliges a connected server to fail, or the user to call anything.
Scheduling ==
  /\ WF_vars(\E m \in DOMAIN monitors : topologyMonitor(m))
  /\ WF_vars(\E m \in DOMAIN monitors, h \in DOMAIN handles, err \in BOOLEAN,
                l \in NearLatencies : pingServer(m, h, err, l))
  /\ WF_vars(Settles)

\* The topology of two equal seeds under that scheduling, nobody
\* authenticating against it.
SpecRehabilitation ==
  Constructed([seedlist |-> <<"a:1", "a:1">>, disconnectHandler |-> FALSE])
    /\ [][LifecycleOf(NearLatencies)]_vars
    /\ Scheduling

\* ------------------------------------------- moveServerFrom on its own
\* The names of the servers the lists are filled with.
MoveNames == {"a:1", "b:2"}

\* The lists moveServerFrom is given: no server twice in one list.
MoveLists ==
  {l \in UNION {[1..n -> 1..MaxHandles] : n \in 0..MaxHandles} :
     \A i, j \in DOMAIN l : l[i] = l[j] => i = j}

\* A topology whose servers and whose lists `from` (connectingProxies) and
\* `to` (connectedProxies) are any of the above.
InitMove ==
  /\ state = CONNECTING
  /\ seedlist = <<"a:1", "b:2">>
  /\ disconnectHandler = FALSE
  /\ handles \in [1..MaxHandles -> {NewServer(nm, "initial", 0) : nm \in MoveNames}]
  /\ connectingProxies \in MoveLists
  /\ connectedProxies \in MoveLists
  /\ disconnectedProxies = <<>>
  /\ authenticating = FALSE
  /\ auth = [count |-> 0, pending |-> {}, errors |-> FALSE]
  /\ index = 0
  /\ lowerBoundLatency = MAX_VALUE
  /\ haTimeoutId = 0
  /\ monitors = [m \in 1..MaxMonitors |-> IdleMonitor]
  /\ nconnects = 1
  /\ connectEmitted = 0
  /\ closedEmitted = 0
  /\ emitted = <<>>
  /\ result = NoResult

\* moveServerFrom(self.connectingProxies, self.connectedProxies, proxy)
moveServer(proxy) ==
  /\ LET mv == moveServerFrom(handles, connectingProxies, connectedProxies, proxy) IN
     /\ connectingProxies' = mv.from
     /\ connectedProxies' = mv.to
  /\ result' = Result("move", "done", proxy, "none")
  /\ UNCHANGED <<state, seedlist, disconnectHandler, handles, disconnectedProxies,
                 authenticating, auth, index, lowerBoundLatency, haTimeoutId,
                 monitors, nconnects, connectEmitted, closedEmitted, emitted>>

SpecMove == InitMove /\ [][\E proxy \in DOMAIN handles : moveServer(proxy)]_vars

\* ------------------------------------------------------------------- claims
Emits(es, nm) == \E i \in 1..Len(es) : es[i].ev = nm

\* How many of the three lists hold server h (an entry counted once per list).
ListsHolding(h) ==
  Cardinality({l \in {"connecting", "connected", "disconnected"} :
                 \/ l = "connecting" /\ h \in Range(connectingProxies)
                 \/ l = "connected" /\ h \in Range(connectedProxies)
                 \/ l = "disconnected" /\ h \in Range(disconnectedProxies)})

\* The legal-transition table as the specification gives it.
LegalTable ==
  {<<"disconnected", "connecting">>, <<"disconnected", "disconnected">>,
   <<"disconnected", "destroyed">>,
   <<"connecting", "connecting">>, <<"connecting", "connected">>,
   <<"connecting", "disconnected">>, <<"connecting", "destroyed">>,
   <<"connected", "connected">>, <<"connected", "disconnected">>,
   <<"connected", "destroyed">>,
   <<"destroyed", "destroyed">>}

\* C1: every step takes `state` along the legal-transition table; a transition
\* outside it (connect() on a Connected or Destroyed topology) leaves `state`
\* as it was, so Destroyed is never left.
C1_LegalTransitions ==
  [][/\ <<state, state'>> \in LegalTable
     /\ (nconnects' # nconnects /\ state \in {CONNECTED, DESTROYED}) => state' = state
     /\ state = DESTROYED => state' = DESTROYED]_vars

\* C1 witness: connect() has just run on a Connected topology (it emitted
\* topologyOpening) and the state is still Connected.
C1_ConnectRejected ==
  /\ state = CONNECTED
  /\ nconnects = 2
  /\ emitted = <<Ev("topologyOpening", 0)>>

\* C2: on a Destroyed topology no step but a new connect() call changes
\* connecting, connected, disconnected or the lower-bound latency, none emits
\* 'joined' or 'left', and a server whose connect attempt completes (one of its
\* once-handlers fires) is destroyed.
C2_DestroyedIsCancellation ==
  [][(state = DESTROYED /\ nconnects' = nconnects) =>
       /\ UNCHANGED <<connectingProxies, connectedProxies, disconnectedProxies,
                      lowerBoundLatency>>
       /\ ~Emits(emitted', "joined")
       /\ ~Emits(emitted', "left")
       /\ \A h \in DOMAIN handles :
            handles'[h].once # handles[h].once => handles'[h].destroyed]_vars

\* C2 witness: destroy() came after connect() and before any seed finished (no
\* server was ever connected or disconnected), and a seed that connected later
\* was destroyed.
C2_LateConnectDestroyed ==
  /\ state = DESTROYED
  /\ connectedProxies = <<>>
  /\ disconnectedProxies = <<>>
  /\ \E h \in DOMAIN handles :
       /\ handles[h].lst = "initial"
       /\ "connect" \notin handles[h].once
       /\ handles[h].destroyed

\* C3: no two entries of connected have the same name.
C3_ConnectedNamesUnique ==
  \A i, j \in 1..Len(connectedProxies) :
    handles[connectedProxies[i]].name = handles[connectedProxies[j]].name => i = j

\* C3 witness: two servers of one name both connected; the first is in
\* connected and the second was refused as a duplicate.
C3_DuplicateRefused ==
  /\ state # DESTROYED
  /\ \E h1, h2 \in DOMAIN handles :
       /\ h1 # h2
       /\ handles[h1].name = handles[h2].name
       /\ h1 \in Range(connectedProxies)
       /\ handles[h2].lst = "initial"
       /\ "connect" \notin handles[h2].once
       /\ handles[h2].destroyed

\* C4 (as claimed): every server the topology has created is in exactly one of
\* connecting, connected, disconnected.
C4_ExactlyOneList ==
  \A h \in DOMAIN handles : ListsHolding(h) = 1

\* C5 (as claimed): an event of a server the topology has destroyed changes
\* none of connecting, connected, disconnected.
C5_DestroyedServerEventsIgnored ==
  [][\A h \in DOMAIN handles :
       (/\ handles[h].destroyed
        /\ \/ handleEvent(h)
           \/ \E e \in HandlerSet, l \in Latencies, a \in BOOLEAN :
                handleInitialConnectEvent(h, e, l, a)
           \/ \E e \in HandlerSet, l \in Latencies, a \in BOOLEAN :
                reconnectProxiesHandleEvent(h, e, l, a))
       => UNCHANGED <<connectingProxies, connectedProxies, disconnectedProxies>>]_vars

\* A proxy was selected by the last step: returned by getServer, or given the
\* operation by insert, update, remove or command.
Selected ==
  \/ result.op = "getServer" /\ result.to # undefined
  \/ result.op \in WriteOps \cup {"command"} /\ result.out = "forwarded"

\* C6 (as claimed): a selected proxy is in connected, is connected itself and
\* is inside the latency window; it is in neither connecting nor disconnected.
C6_SelectedIsEligible ==
  Selected =>
    /\ result.to \in Range(connectedProxies)
    /\ handles[result.to].up
    /\ handles[result.to].lat <= lowerBoundLatency + localThresholdMS
    /\ result.to \notin Range(connectingProxies)
    /\ result.to \notin Range(disconnectedProxies)

\* C7 (as claimed): getServer returns no proxy exactly when no connected proxy
\* passes the filter, and otherwise returns one that passes.
C7_NoneOnlyIfNoneEligible ==
  result.op = "getServer" =>
    LET el == Range(Eligible(handles, connectedProxies, lowerBoundLatency)) IN
    /\ result.to = undefined <=> el = {}
    /\ result.to # undefined => result.to \in el

\* C8 (as claimed, for runs of one and of two selections): of two getServer
\* calls in a row over the same k >= 1 eligible proxies, each returns an
\* eligible proxy (N = 1: floor = ceil = 1 for k = 1, and at most 1 otherwise),
\* the same one twice if k = 1 and two different ones if k >= 2 (N = 2).
C8_FairRotation ==
  [][(result'.op = "getServer"
       /\ Len(Eligible(handles, connectedProxies, lowerBoundLatency)) >= 1) =>
       LET el == Range(Eligible(handles, connectedProxies, lowerBoundLatency)) IN
       /\ result'.to \in el
       /\ result.op = "getServer" /\ result.to \in el =>
            (result'.to = result.to <=> Cardinality(el) = 1)]_vars

\* The smallest lastIsMasterMS among the connected proxies.
MinConnectedLatency ==
  CHOOSE l \in {handles[h].lat : h \in Range(connectedProxies)} :
    \A h \in Range(connectedProxies) : l <= handles[h].lat

\* C9 (as claimed): once 'connect' has been emitted, getServer returns no
\* proxy whose lastIsMasterMS is more than localThresholdMS above the smallest
\* lastIsMasterMS among the connected proxies.
C9_WithinThresholdOfFastest ==
  (connectEmitted >= 1 /\ result.op = "getServer" /\ result.to # undefined
     /\ result.to \in Range(connectedProxies)) =>
    handles[result.to].lat <= MinConnectedLatency + localThresholdMS

\* C10 (as claimed): on a Destroyed topology insert, update, remove, command
\* and auth (of a mechanism that has a provider) all end with the 'topology
\* was destroyed' error: no server is called, nothing is buffered.
C10_DestroyedFailsEveryOperation ==
  (state = DESTROYED /\ result.op \in WriteOps \cup {"command", "auth"}
     /\ result.out # "throw:provider") =>
    result.out = "destroyed"

\* The topology is offline with a buffer: no proxy is connected, it is not
\* destroyed and a disconnect handler is set.
OfflineWithBuffer ==
  /\ Len(connectedProxies) = 0
  /\ state # DESTROYED
  /\ disconnectHandler

\* C11 (amended): on a topology that is offline with a buffer, every insert,
\* update and remove, and every auth of a mechanism that has a provider made
\* while no auth fan-out is in progress, is handed to the disconnect handler
\* (once: it is the call's only outcome), reaches no proxy and calls nothing
\* back.
C11_OfflineCallsAreBuffered ==
  [][OfflineWithBuffer =>
       /\ result'.op \in WriteOps =>
            result'.out = "buffered" /\ result'.to = undefined
       /\ (result'.op = "auth" /\ result'.out # "throw:provider" /\ ~authenticating) =>
            result'.out = "buffered" /\ result'.to = undefined]_vars

\* C11 witness: the only server was lost after it had connected, and an auth
\* made since went to the disconnect handler.
C11_AuthBuffered ==
  /\ OfflineWithBuffer
  /\ disconnectedProxies # <<>>
  /\ result.op = "auth"
  /\ result.out = "buffered"
  /\ result.kind = "auth"

\* C11 (as claimed): on a topology that is offline with a buffer every insert,
\* update, remove and auth (of a mechanism that has a provider) is handed to
\* the disconnect handler.
C11_EveryOfflineCallIsBuffered ==
  [][OfflineWithBuffer =>
       /\ result'.op \in WriteOps => result'.out = "buffered"
       /\ (result'.op = "auth" /\ result'.out # "throw:provider") =>
            result'.out = "buffered"]_vars

\* C12 (as claimed): on a topology that is offline with a buffer, command is
\* handed to the disconnect handler; its callback does not get 'no mongos
\* proxy available'.
C12_OfflineCommandIsBuffered ==
  (OfflineWithBuffer /\ result.op = "command") =>
    result.out = "buffered" /\ result.kind = "command"

\* C13 (as claimed): with a proxy connected and none passing the filter of
\* pickProxy, insert, update and remove call back 'no mongos proxy available':
\* they neither throw nor reach a proxy.
C13_NoEligibleProxyIsAnError ==
  (/\ result.op \in WriteOps
   /\ state # DESTROYED
   /\ Len(connectedProxies) >= 1
   /\ Len(Eligible(handles, connectedProxies, lowerBoundLatency)) = 0) =>
    result.out = "noproxy"

\* C14 (as claimed): 'connect' (and with it 'fullsetup' and 'all') is emitted
\* at most once over the lifetime of a topology.
C14_ConnectEmittedAtMostOnce ==
  connectEmitted <= 1

\* C15 (as claimed): however often destroy() is called, 'topologyClosed' is
\* emitted at most once: a destroy() of a Destroyed topology emits nothing.
C15_TopologyClosedAtMostOnce ==
  closedEmitted <= 1

\* The names of the events in es, in order.
EventNames(es) == [i \in 1..Len(es) |-> es[i].ev]

\* C16: in a cold start (one connect() call) a step that emits 'joined' comes
\* after connect() has emitted 'topologyOpening'; 'connect', 'fullsetup',
\* 'all' are emitted together, in that order and as the last events of their
\* step, when connecting is empty; and when the second of two seeds that both
\* connect joins, the step emits joined, connect, fullsetup, all for it.
C16_ColdStartEventOrder ==
  nconnects <= 1 =>
    /\ Emits(emitted, "joined") => nconnects = 1
    /\ (Emits(emitted, "connect") \/ Emits(emitted, "fullsetup") \/ Emits(emitted, "all")) =>
         /\ Len(emitted) >= 3
         /\ SubSeq(EventNames(emitted), Len(emitted) - 2, Len(emitted))
              = <<"connect", "fullsetup", "all">>
         /\ \A i \in 1..(Len(emitted) - 3) :
              emitted[i].ev \notin {"connect", "fullsetup", "all"}
         /\ connectingProxies = <<>>
    /\ (Len(handles) = 2 /\ Len(connectedProxies) = 2 /\ Emits(emitted, "joined")) =>
         emitted = <<Ev("joined", connectedProxies[2])>> \o <<Ev("connect", 0), Ev("fullsetup", 0), Ev("all", 0)>>

\* C16 witness: seeds a:1 and b:2 have both connected, a:1 first, and the step
\* of b:2 emitted joined(b:2), connect, fullsetup, all.
C16_TwoSeedsJoined ==
  /\ nconnects = 1
  /\ seedlist = <<"a:1", "b:2">>
  /\ connectedProxies = <<1, 2>>
  /\ EventNames(emitted) = <<"joined", "connect", "fullsetup", "all">>
  /\ emitted[1].h = 2

\* C17 (as claimed): an auth fan-out completes once every non-arbiter of its
\* snapshot has called back: no fan-out is left in progress (authenticating
\* true) with no reply outstanding.
C17_FanOutCompletes ==
  authenticating => auth.pending # {}

\* C18: an auth() call made while authenticating is true starts nothing: it
\* throws ('authentication or logout allready in process' if its mechanism has
\* a provider, 'auth provider ... does not exist' otherwise), calls auth on no
\* server, and leaves authenticating and the countdown and outstanding replies
\* of the fan-out in progress as they are.
C18_ConcurrentAuthRejected ==
  [][(authenticating /\ result'.op = "auth") =>
       /\ result'.out \in {"throw:inprocess", "throw:provider"}
       /\ result'.to = undefined
       /\ UNCHANGED <<authenticating, auth, handles>>]_vars

\* C18 witness: an auth() was rejected while a fan-out was waiting for a reply.
C18_RejectedDuringFanOut ==
  /\ authenticating
  /\ auth.pending # {}
  /\ result.op = "auth"
  /\ result.out = "throw:inprocess"

\* C19: a server of reconnectProxies whose 'connect' arrives while
\* authenticating is true is destroyed; connected and disconnected stay as
\* they are (it does not join, its name is not taken out of disconnected) and
\* no 'joined' is emitted.
C19_RehabConnectDuringAuthDestroyed ==
  [][\A h \in DOMAIN handles :
       (/\ authenticating
        /\ handles[h].lst = "rehab"
        /\ "connect" \in handles[h].once
        /\ "connect" \notin handles'[h].once) =>
         /\ handles'[h].destroyed
         /\ h \notin Range(connectedProxies')
         /\ UNCHANGED <<connectedProxies, disconnectedProxies>>
         /\ ~Emits(emitted', "joined")]_vars

\* C19 witness: on a topology never destroyed, a server of reconnectProxies
\* has connected and was destroyed, its name still in disconnected, while the
\* fan-out is still in progress.
C19_RehabDestroyedDuringFanOut ==
  /\ state # DESTROYED
  /\ authenticating
  /\ \E h \in DOMAIN handles :
       /\ handles[h].lst = "rehab"
       /\ "connect" \notin handles[h].once
       /\ handles[h].destroyed
       /\ HasName(handles, disconnectedProxies, handles[h].name)

\* The monitors that have a timer set or a tick in progress.
Outstanding == {m \in DOMAIN monitors : monitors[m].ph # "idle"}

\* C20 (as claimed): at most one monitor timer or tick is outstanding.
C20_SingleMonitor ==
  Cardinality(Outstanding) <= 1

\* C21 (as claimed): when one of two connected proxies failed its ismaster
\* probe, the other stayed connected, and the reconnectProxies of that tick is
\* done with the server it created for the failed name back in connected,
\* 'reconnect' is emitted on that tick.
C21_ReconnectEmittedOnPingTick ==
  [][\A m \in DOMAIN monitors :
       (/\ state # DESTROYED
        /\ monitors[m].ph = "rehab"
        /\ monitors[m].path = "ping"
        /\ monitors'[m].ph = "timer"
        /\ Len(connectedProxies') >= 2
        /\ \E h \in DOMAIN handles :
             /\ handles[h].rc = m
             /\ handles'[h].lst = "stable"
             /\ h \in Range(connectedProxies')
             \* the server it replaces had been connected and failed its probe
             /\ \E g \in DOMAIN handles :
                  /\ handles[g].name = handles[h].name
                  /\ handles[g].lst = "stable"
                  /\ handles[g].destroyed) =>
         Emits(emitted', "reconnect")]_vars

\* C22 (as claimed): on a topology that is not destroyed, the reply to the
\* ismaster probe of a connected proxy (which serverHeartbeatStarted announced)
\* emits exactly one of serverHeartbeatSucceeded and serverHeartbeatFailed
\* for that proxy.
C22_HeartbeatSettled ==
  [][\A m \in DOMAIN monitors : \A h \in DOMAIN handles :
       (/\ state # DESTROYED
        /\ monitors[m].ph = "ping"
        /\ h \in monitors[m].pings
        /\ (monitors'[m].ph # "ping" \/ h \notin monitors'[m].pings)) =>
         ((Ev("serverHeartbeatSucceeded", h) \in Range(emitted'))
            # (Ev("serverHeartbeatFailed", h) \in Range(emitted')))]_vars

\* C23 (as claimed): unref() completes without raising, and it leaves the
\* topology destroyed with no monitor timer pending.
C23_UnrefCompletes ==
  result.op = "unref" =>
    /\ result.out = "done"
    /\ state = DESTROYED
    /\ \A m \in DOMAIN monitors : monitors[m].ph # "timer"

\* reconnectProxies cannot create the servers of another attempt within
\* MaxHandles.
HandlesExhausted == Len(handles) + Len(disconnectedProxies) > MaxHandles

\* C24 (as claimed): on a topology that is not destroyed and not
\* authenticating, a name in disconnectedProxies is eventually back in
\* connectedProxies (as far as MaxHandles lets the monitor create servers).
C24_EventuallyRejoined ==
  (state # DESTROYED /\ HasName(handles, disconnectedProxies, "a:1"))
    ~> \/ HasName(handles, connectedProxies, "a:1")
       \/ state = DESTROYED
       \/ authenticating
       \/ HandlesExhausted

\* C25 (as claimed): whenever 'connect' is emitted, connectedProxies holds at
\* least one server and the state is connected.
C25_ConnectMeansConnected ==
  Emits(emitted, "connect") => Len(connectedProxies) >= 1 /\ state = CONNECTED

\* C26 (as claimed): no server is added to connectedProxies in a step taken
\* while authenticating is true.
C26_NoJoinWhileAuthenticating ==
  [][authenticating => Range(connectedProxies') \subseteq Range(connectedProxies)]_vars

\* Every seed of the one connect() call has had its first event.
SeedsSettled ==
  /\ nconnects = 1
  /\ Len(handles) >= Len(seedlist)
  /\ \A h \in 1..Len(seedlist) : handles[h].once # HandlerSet

\* C27 (as claimed): once every seed's connect attempt has settled on a
\* topology that is not destroyed, connectingProxies is empty and the monitor
\* has been started.
C27_SettledStartsMonitor ==
  (state # DESTROYED /\ SeedsSettled) =>
    connectingProxies = <<>> /\ Outstanding # {}

\* C28 (as claimed): an insert, update or remove handed to the disconnect
\* handler is recorded under its own kind.
C28_BufferedUnderOwnKind ==
  (result.op \in WriteOps /\ result.out = "buffered") => result.kind = result.op

\* The entries of a list whose server is not named nm, in order.
NamedOtherThan(list, nm) == SelectSeq(list, LAMBDA h : handles[h].name # nm)

\* C29 (as claimed): after moveServerFrom(from, to, proxy) no entry of `from`
\* has the name of proxy, `to` has exactly one, which is proxy and is last, and
\* the entries of other names are the ones before, in the same order.
C29_MoveLeavesOneEntry ==
  [][result'.op = "move" =>
       LET proxy == result'.to
           nm == handles[proxy].name
       IN
       /\ ~HasName(handles, connectingProxies', nm)
       /\ connectedProxies'[Len(connectedProxies')] = proxy
       /\ Cardinality({i \in DOMAIN connectedProxies' :
                         handles[connectedProxies'[i]].name = nm}) = 1
       /\ NamedOtherThan(connectingProxies', nm) = NamedOtherThan(connectingProxies, nm)
       /\ NamedOtherThan(connectedProxies', nm) = NamedOtherThan(connectedProxies, nm)]_vars

====
